---- MODULE Spec2Model ----
(***************************************************************************)
(* Model of pupil_src/shared_modules/service_ui.py: the Service_UI plugin  *)
(* that owns the Pupil Service control window.                             *)
(*                                                                         *)
(* Units.  Content scales are numerators over 4 (4 = 1.0, 5 = 1.25,        *)
(* 8 = 2.0); these values are exact binary fractions, so the integer       *)
(* arithmetic below agrees with the floating-point arithmetic of the       *)
(* code.  User scales are in tenths (6 = 0.6 ... 14 = 1.4), notification   *)
(* delays are in tenths of a time unit.  The widget scale gui.scale is the *)
(* product of a user scale and a content scale, a numerator over 40.       *)
(*                                                                         *)
(* Callbacks that GLFW dispatches from inside glfwPollEvents and setters   *)
(* that pyglui dispatches from inside gui.update() are handlers of their   *)
(* own and are modelled as separate actions; the only effect of            *)
(* glfwPollEvents kept inside update_ui is that it may observe the user's  *)
(* close request and raise the window's should-close flag.                 *)
(***************************************************************************)
EXTENDS Integers, Sequences, FiniteSets, TLC

VARIABLES
    platform,        \* platform.system()
    phase,           \* the host's position in the plugin's life: "running",
                     \* "saved" (shutdown began, settings collected),
                     \* "cleaned" (after cleanup, before the next launch)
    should_close,    \* GLFW should-close flag of main_window
    win_pos,         \* GLFW window position
    win_size,        \* GLFW window size, screen coordinates
    monitor,         \* [c, f]: content scale (quarters) and framebuffer scale
    window_size,     \* self.window_size (framebuffer size at the last resize)
    content_scale,   \* self.content_scale
    gui_user_scale,  \* g_pool.gui_user_scale (tenths)
    gui_scale,       \* g_pool.gui.scale (numerator over 40)
    gui_window,      \* size last given to g_pool.gui.update_window
    gui_configuration, \* g_pool.gui.configuration (opaque)
    sent,            \* notifications handed to notify_all, oldest first
    toggles,         \* history: the eye switch toggles, oldest first
    sess,            \* the last dictionary returned by get_init_dict
    snapshot_src,    \* history: the window state that sess was taken from
    lastOp,          \* the last handler that ran, its arguments and pre-state
    trace            \* the external calls the last handler made, in order

vars == <<platform, phase, should_close, win_pos, win_size, monitor,
          window_size, content_scale, gui_user_scale, gui_scale, gui_window,
          gui_configuration, sent, toggles, sess, snapshot_src, lastOp, trace>>

----------------------------------------------------------------------------
(* Bounds *)

MaxDim == 2

MaxSent == 3

(* Program constants *)

DefaultSide == 400

RestartDelay == 20

EyeStopDelay == 2

Platforms == {"Linux", "Windows", "Darwin"}

window_size_default == <<DefaultSide, DefaultSide>>

window_position_default(p) ==
    IF p = "Linux" THEN <<30, 30>>
    ELSE IF p = "Windows" THEN <<8, 90>>
    ELSE <<0, 0>>

UserScales == {6, 8, 10, 12, 14}

EyeIds == {0, 1}

(* Inputs *)

Dims == 0 .. MaxDim

\* Monitors the window can be on: retina and non-retina on macOS, 100%,
\* 125% and 200% display scaling elsewhere.
Monitors(p) ==
    IF p = "Darwin" THEN {[c |-> 4, f |-> 1], [c |-> 8, f |-> 2]}
    ELSE IF p = "Windows" THEN {[c |-> 4, f |-> 1], [c |-> 5, f |-> 1]}
    ELSE {[c |-> 4, f |-> 1], [c |-> 8, f |-> 1]}

WindowPositions(p) == {window_position_default(p), <<1, 2>>}

\* <<clipboard returned by GLFW, clipboard returned by gui.update()>>
Clipboards == {<<"None", "">>, <<"a", "a">>, <<"a", "b">>}

ReceivedNotifications ==
    {[subject |-> "service_process.ui.should_update", initial_delay |-> 1],
     [subject |-> "service_process.ui.should_update", initial_delay |-> 3,
      delay |-> 0],
     [subject |-> "eye_process.started", initial_delay |-> 3, delay |-> 0]}

NoSess == [absent |-> TRUE]

----------------------------------------------------------------------------
(* Helpers *)

\* int(num / den) for non-negative operands
Trunc(num, den) == num \div den

Call(name) == [call |-> name]

CallSize(name, size) == [call |-> name, size |-> size]

Notify(n) == [call |-> "notify_all", n |-> n]

IsNotify(e) == e.call = "notify_all"

NotesOf(tr) == LET Sel(e) == IsNotify(e) IN
    [i \in 1 .. Len(SelectSeq(tr, Sel)) |-> SelectSeq(tr, Sel)[i].n]

\* bytes.decode() of the clipboard, "" when GLFW returns None
DecodeClipboard(raw) == IF raw = "None" THEN "" ELSE raw

\* update_ui without its else branch: draws whatever the flag says.
update_ui_draws_while_closing(closing, size, raw, user) ==
    <<CallSize("glViewport", size), Call("glfwPollEvents"),
      Call("gl_display"), Call("gui.update_clipboard"), Call("gui.update")>>
    \o (IF user # "" /\ user # DecodeClipboard(raw)
        THEN <<Call("glfwSetClipboardString")>> ELSE <<>>)
    \o <<Call("glfwSwapBuffers")>>
    \o (IF closing
        THEN <<Notify([subject |-> "service_process.should_stop"])>>
        ELSE <<>>)

\* The calls of one update_ui pass.
update_ui(closing, size, raw, user) ==
    IF ~closing
    THEN <<CallSize("glViewport", size), Call("glfwPollEvents"),
           Call("gl_display"), Call("gui.update_clipboard"),
           Call("gui.update")>>
         \o (IF user # "" /\ user # DecodeClipboard(raw)
             THEN <<Call("glfwSetClipboardString")>> ELSE <<>>)
         \o <<Call("glfwSwapBuffers")>>
    ELSE <<Notify([subject |-> "service_process.should_stop"])>>

\* The should-close flag after one update_ui pass: glfwPollEvents runs only
\* in the drawing branch and may observe the user's close request.
CloseAfterUpdate(closing, closeReq) == closing \/ closeReq

\* The calls of on_resize(window, w, h).
on_resize(closing, w, h, raw, user) ==
    <<CallSize("gui.update_window", <<w, h>>), Call("gui.collect_menus")>>
    \o update_ui(closing, <<w, h>>, raw, user)

\* on_resize that forgets the content scale.
WidgetScale_user_only(user_scale, c) == user_scale * 4

\* The scale written to g_pool.gui.scale by on_resize.
WidgetScale(user_scale, c) == user_scale * c

\* glfwGetFramebufferSize for a window of the given size
FramebufferSize(size, m) == <<size[1] * m.f, size[2] * m.f>>

\* glfwCreateWindow under GLFW_SCALE_TO_MONITOR: the requested size is
\* multiplied by the content scale where the platform scales windows.
CreatedSize(p, size, m) ==
    IF p \in {"Windows", "Linux"}
    THEN <<Trunc(size[1] * m.c, 4), Trunc(size[2] * m.c, 4)>>
    ELSE size

\* set_window_size that divides by nothing: content scale only.
ResetSize_ignores_framebuffer(m) ==
    <<Trunc(DefaultSide * m.c, 4), Trunc(DefaultSide * m.c, 4)>>

\* The size computed by set_window_size.
ResetSize(m) ==
    <<Trunc(DefaultSide * m.c, 4 * m.f), Trunc(DefaultSide * m.c, 4 * m.f)>>

\* get_init_dict without the division by the content scale.
SessionWindowSize_unscaled(p, size, m) == size

\* The window_size entry of get_init_dict.
SessionWindowSize(p, size, m) ==
    IF p \in {"Windows", "Linux"}
    THEN <<Trunc(size[1] * 4, m.c), Trunc(size[2] * 4, m.c)>>
    ELSE size

\* The dictionary built by get_init_dict.
InitDict(p, pos, size, m, user_scale, cfg) ==
    LET base == [window_position |-> pos, gui_scale |-> user_scale,
                 ui_config |-> cfg]
    IN IF size[1] # 0 /\ size[2] # 0
       THEN [window_position |-> pos, gui_scale |-> user_scale,
             ui_config |-> cfg,
             window_size |-> SessionWindowSize(p, size, m)]
       ELSE base

\* start_stop_eye that puts the grace delay on both notifications.
EyeNotification_always_delayed(eye_id, make_alive) ==
    [subject |-> IF make_alive
                 THEN (IF eye_id = 0 THEN "eye_process.should_start.0"
                       ELSE "eye_process.should_start.1")
                 ELSE (IF eye_id = 0 THEN "eye_process.should_stop.0"
                       ELSE "eye_process.should_stop.1"),
     eye_id |-> eye_id, delay |-> EyeStopDelay]

\* The notification built by start_stop_eye.
EyeNotification(eye_id, make_alive) ==
    IF make_alive
    THEN [subject |-> IF eye_id = 0 THEN "eye_process.should_start.0"
                      ELSE "eye_process.should_start.1",
          eye_id |-> eye_id]
    ELSE [subject |-> IF eye_id = 0 THEN "eye_process.should_stop.0"
                      ELSE "eye_process.should_stop.1",
          eye_id |-> eye_id, delay |-> EyeStopDelay]

\* on_notify that re-sends the notification as received.
Rearmed_as_received(n) == n

\* notification["delay"] = notification["initial_delay"]
Rearmed(n) ==
    [k \in DOMAIN n \cup {"delay"} |->
        IF k = "delay" THEN n.initial_delay ELSE n[k]]

\* reset_restart with the two notifications exchanged.
reset_restart_calls_start_first ==
    <<Call("glfwSetWindowShouldClose"),
      Notify([subject |-> "service_process.should_start",
              delay |-> RestartDelay]),
      Notify([subject |-> "clear_settings_process.should_start"])>>

\* reset_restart that marks the window as closing last.
reset_restart_calls_close_last ==
    <<Notify([subject |-> "clear_settings_process.should_start"]),
      Notify([subject |-> "service_process.should_start",
              delay |-> RestartDelay]),
      Call("glfwSetWindowShouldClose")>>

\* The calls of reset_restart.
reset_restart_calls ==
    <<Call("glfwSetWindowShouldClose"),
      Notify([subject |-> "clear_settings_process.should_start"]),
      Notify([subject |-> "service_process.should_start",
              delay |-> RestartDelay])>>

----------------------------------------------------------------------------------------------------------------------------------------
(* Construction *)

NoSource == [absent |-> TRUE]

\* The state after Service_UI.__init__(g_pool, size, pos, scale, cfg) on
\* platform p and monitor m.
Constructed(p, m, size, pos, scale, cfg, closeReq, clip, from) ==
    LET created == CreatedSize(p, size, m)
        fb == FramebufferSize(created, m)
    IN [should_close |-> CloseAfterUpdate(FALSE, closeReq),
        win_pos |-> pos,
        win_size |-> created,
        window_size |-> fb,
        content_scale |-> m.c,
        gui_user_scale |-> scale,
        gui_scale |-> WidgetScale(scale, m.c),
        gui_window |-> fb,
        gui_configuration |-> cfg,
        lastOp |-> [op |-> "__init__", requested |-> size, from |-> from],
        trace |-> <<CallSize("glfwCreateWindow", size),
                    Call("glfwSetWindowPos")>>
                  \o on_resize(FALSE, fb[1], fb[2], clip[1], clip[2])]

Init ==
    /\ platform \in Platforms
    /\ monitor \in Monitors(platform)
    /\ phase = "running"
    /\ \E closeReq \in BOOLEAN :
        LET s == Constructed(platform, monitor, window_size_default,
                             window_position_default(platform), 10, "empty",
                             closeReq, <<"None", "">>, NoSource)
        IN /\ should_close = s.should_close
           /\ win_pos = s.win_pos
           /\ win_size = s.win_size
           /\ window_size = s.window_size
           /\ content_scale = s.content_scale
           /\ gui_user_scale = s.gui_user_scale
           /\ gui_scale = s.gui_scale
           /\ gui_window = s.gui_window
           /\ gui_configuration = s.gui_configuration
           /\ lastOp = s.lastOp
           /\ trace = s.trace
    /\ sent = <<>>
    /\ toggles = <<>>
    /\ sess = NoSess
    /\ snapshot_src = NoSource

----------------------------------------------------------------------------
(* Handlers *)

\* Every handler records its calls; the notifications among them go to the
\* host's bus in the order they were made.
Emit(tr) ==
    /\ Len(sent) + Len(NotesOf(tr)) <= MaxSent
    /\ trace' = tr
    /\ sent' = sent \o NotesOf(tr)

\* State written by on_resize(main_window, w, h).
ApplyResize(user_scale, w, h) ==
    /\ window_size' = <<w, h>>
    /\ content_scale' = monitor.c
    /\ gui_scale' = WidgetScale(user_scale, monitor.c)
    /\ gui_window' = <<w, h>>

\* The window system resizes the window to (ww, hh) and calls the
\* framebuffer-size callback on_resize.
Resize(ww, hh, closeReq, clip) ==
    LET fb == FramebufferSize(<<ww, hh>>, monitor) IN
    /\ phase = "running"
    /\ win_size' = <<ww, hh>>
    /\ ApplyResize(gui_user_scale, fb[1], fb[2])
    /\ should_close' = CloseAfterUpdate(should_close, closeReq)
    /\ Emit(on_resize(should_close, fb[1], fb[2], clip[1], clip[2]))
    /\ lastOp' = [op |-> "on_resize", w |-> fb[1], h |-> fb[2],
                  closing |-> should_close]
    /\ UNCHANGED <<platform, phase, win_pos, monitor, gui_user_scale,
                   gui_configuration, toggles, sess, snapshot_src>>

\* set_scale without the early return.
set_scale_without_early_return(new_scale, closeReq, clip) ==
    /\ phase = "running"
    /\ gui_user_scale' = new_scale
    /\ ApplyResize(new_scale, window_size[1], window_size[2])
    /\ should_close' = CloseAfterUpdate(should_close, closeReq)
    /\ Emit(on_resize(should_close, window_size[1], window_size[2],
                      clip[1], clip[2]))
    /\ lastOp' = [op |-> "set_scale", new_scale |-> new_scale,
                  changed |-> gui_user_scale # new_scale,
                  closing |-> should_close]
    /\ UNCHANGED <<platform, phase, win_pos, win_size, monitor,
                   gui_configuration, toggles, sess, snapshot_src>>

\* set_scale(new_scale), the setter of the "Interface size" selector.
set_scale(new_scale, closeReq, clip) ==
    /\ phase = "running"
    /\ gui_user_scale' = new_scale
    /\ IF gui_user_scale = new_scale
       THEN /\ Emit(<<>>)
            /\ UNCHANGED <<window_size, content_scale, gui_scale, gui_window,
                           should_close>>
       ELSE /\ ApplyResize(new_scale, window_size[1], window_size[2])
            /\ should_close' = CloseAfterUpdate(should_close, closeReq)
            /\ Emit(on_resize(should_close, window_size[1], window_size[2],
                              clip[1], clip[2]))
    /\ lastOp' = [op |-> "set_scale", new_scale |-> new_scale,
                  changed |-> gui_user_scale # new_scale,
                  closing |-> should_close]
    /\ UNCHANGED <<platform, phase, win_pos, win_size, monitor,
                   gui_configuration, toggles, sess, snapshot_src>>

\* set_window_size(), the "Reset window size" button.
set_window_size ==
    /\ phase = "running"
    /\ win_size' = ResetSize(monitor)
    /\ Emit(<<CallSize("glfwSetWindowSize", ResetSize(monitor))>>)
    /\ lastOp' = [op |-> "set_window_size", c |-> monitor.c, f |-> monitor.f]
    /\ UNCHANGED <<platform, phase, should_close, win_pos, monitor,
                   window_size, content_scale, gui_user_scale, gui_scale,
                   gui_window, gui_configuration, toggles, sess,
                   snapshot_src>>

\* reset_restart(), the "Restart with default settings" button.
reset_restart ==
    /\ phase = "running"
    /\ should_close' = TRUE
    /\ Emit(reset_restart_calls)
    /\ lastOp' = [op |-> "reset_restart", closing |-> should_close]
    /\ UNCHANGED <<platform, phase, win_pos, win_size, monitor, window_size,
                   content_scale, gui_user_scale, gui_scale, gui_window,
                   gui_configuration, toggles, sess, snapshot_src>>

\* on_notify(notification)
on_notify(n, closeReq, clip) ==
    /\ phase = "running"
    /\ IF n.subject = "service_process.ui.should_update"
       THEN /\ Emit(<<Notify(Rearmed(n))>>
                    \o update_ui(should_close, window_size, clip[1], clip[2]))
            /\ should_close' = CloseAfterUpdate(should_close, closeReq)
       ELSE /\ Emit(<<>>)
            /\ UNCHANGED should_close
    /\ lastOp' = [op |-> "on_notify", n |-> n, closing |-> should_close]
    /\ UNCHANGED <<platform, phase, win_pos, win_size, monitor, window_size,
                   content_scale, gui_user_scale, gui_scale, gui_window,
                   gui_configuration, toggles, sess, snapshot_src>>

\* start_stop_eye(eye_id, make_alive), the setter of the eye switches.
start_stop_eye(eye_id, make_alive) ==
    /\ phase = "running"
    /\ Emit(<<Notify(EyeNotification(eye_id, make_alive))>>)
    /\ toggles' = Append(toggles, <<eye_id, make_alive>>)
    /\ lastOp' = [op |-> "start_stop_eye", eye_id |-> eye_id,
                  make_alive |-> make_alive]
    /\ UNCHANGED <<platform, phase, should_close, win_pos, win_size, monitor,
                   window_size, content_scale, gui_user_scale, gui_scale,
                   gui_window, gui_configuration, sess, snapshot_src>>

\* get_init_dict(): the host collects the session settings when it shuts
\* down, after its last event-loop iteration.
get_init_dict ==
    /\ phase = "running"
    /\ phase' = "saved"
    /\ sess' = InitDict(platform, win_pos, win_size, monitor, gui_user_scale,
                        gui_configuration)
    /\ snapshot_src' = [window_position |-> win_pos, window_size |-> win_size,
                        gui_scale |-> gui_user_scale, c |-> monitor.c]
    /\ Emit(<<>>)
    /\ lastOp' = [op |-> "get_init_dict"]
    /\ UNCHANGED <<platform, should_close, win_pos, win_size, monitor,
                   window_size, content_scale, gui_user_scale, gui_scale,
                   gui_window, gui_configuration, toggles>>

\* cleanup()
cleanup(hide_ui) ==
    /\ phase = "saved"
    /\ phase' = "cleaned"
    /\ Emit((IF hide_ui THEN <<>> ELSE <<Call("glfwRestoreWindow")>>)
            \o <<Call("gui.remove"), Call("gui.terminate"),
                 Call("glfwDestroyWindow"), Call("glfwTerminate")>>)
    /\ lastOp' = [op |-> "cleanup"]
    /\ UNCHANGED <<platform, should_close, win_pos, win_size, monitor,
                   window_size, content_scale, gui_user_scale, gui_scale,
                   gui_window, gui_configuration, toggles, sess,
                   snapshot_src>>

\* Service_UI(g_pool, **session settings): the next launch builds a new
\* instance from the saved dictionary; a key the dictionary lacks takes the
\* default of __init__.
Construct(m, closeReq, clip) ==
    /\ phase = "cleaned"
    /\ phase' = "running"
    /\ monitor' = m
    /\ LET size == IF "window_size" \in DOMAIN sess
                   THEN sess.window_size ELSE window_size_default
           s == Constructed(platform, m, size, sess.window_position,
                            sess.gui_scale, sess.ui_config, closeReq, clip,
                            snapshot_src)
       IN /\ should_close' = s.should_close
          /\ win_pos' = s.win_pos
          /\ win_size' = s.win_size
          /\ window_size' = s.window_size
          /\ content_scale' = s.content_scale
          /\ gui_user_scale' = s.gui_user_scale
          /\ gui_scale' = s.gui_scale
          /\ gui_window' = s.gui_window
          /\ gui_configuration' = s.gui_configuration
          /\ lastOp' = s.lastOp
          /\ Emit(s.trace)
    /\ sess' = NoSess
    /\ snapshot_src' = NoSource
    /\ UNCHANGED <<platform, toggles>>

\* The user drags the window to position pos on monitor m.
WindowMoved(pos, m) ==
    /\ phase = "running"
    /\ win_pos' = pos
    /\ monitor' = m
    /\ Emit(<<>>)
    /\ lastOp' = [op |-> "window_moved"]
    /\ UNCHANGED <<platform, phase, should_close, win_size, window_size,
                   content_scale, gui_user_scale, gui_scale, gui_window,
                   gui_configuration, toggles, sess, snapshot_src>>

----------------------------------------------------------------------------
(* Specifications *)

\* Every operation of the plugin, with the notifications and sizes that
\* drive the window's life from Running to ClosePending and to the next
\* launch.
Next ==
    \/ \E closeReq \in BOOLEAN :
            Resize(win_size[1], win_size[2], closeReq, <<"None", "">>)
    \/ \E s \in {10, 12}, closeReq \in BOOLEAN :
            set_scale(s, closeReq, <<"None", "">>)
    \/ set_window_size
    \/ reset_restart
    \/ \E n \in ReceivedNotifications, closeReq \in BOOLEAN :
            on_notify(n, closeReq, <<"None", "">>)
    \/ start_stop_eye(0, TRUE)
    \/ get_init_dict
    \/ cleanup(FALSE)
    \/ \E closeReq \in BOOLEAN : Construct(monitor, closeReq, <<"None", "">>)
    \/ \E pos \in WindowPositions(platform) : WindowMoved(pos, monitor)

Spec == Init /\ [][Next]_vars

\* The handlers that send notifications, over all their inputs.
NextNotify ==
    \/ \E closeReq \in BOOLEAN, clip \in Clipboards :
            Resize(win_size[1], win_size[2], closeReq, clip)
    \/ reset_restart
    \/ \E n \in ReceivedNotifications, closeReq \in BOOLEAN,
          clip \in Clipboards :
            on_notify(n, closeReq, clip)
    \/ \E eye_id \in EyeIds, make_alive \in BOOLEAN :
            start_stop_eye(eye_id, make_alive)

SpecNotify == Init /\ [][NextNotify]_vars

\* The handlers that read or write the window geometry and the scales,
\* over all window sizes, scales, monitors and positions.
NextGeom ==
    \/ \E size \in (Dims \X Dims) \cup {win_size}, closeReq \in BOOLEAN :
            Resize(size[1], size[2], closeReq, <<"a", "b">>)
    \/ \E s \in {10, 14}, closeReq \in BOOLEAN :
            set_scale(s, closeReq, <<"a", "b">>)
    \/ set_window_size
    \/ get_init_dict
    \/ \E hide_ui \in BOOLEAN : cleanup(hide_ui)
    \/ \E closeReq \in BOOLEAN : Construct(monitor, closeReq, <<"a", "b">>)
    \/ \E pos \in WindowPositions(platform), m \in Monitors(platform) :
            WindowMoved(pos, m)

SpecGeom == Init /\ [][NextGeom]_vars

----------------------------------------------------------------------------
(* Vocabulary of the properties *)

Heartbeat == "service_process.ui.should_update"

DrawCalls == {"glViewport", "glfwPollEvents", "gl_display",
              "gui.update_clipboard", "gui.update", "glfwSetClipboardString",
              "glfwSwapBuffers"}

\* How many entries of tr are calls of the given name
CallCount(tr, name) ==
    LET Sel(e) == e.call = name IN Len(SelectSeq(tr, Sel))

\* How many entries of tr are notifications with the given subject
NoteCount(tr, subject) ==
    LET Sel(e) == e.call = "notify_all" /\ e.n.subject = subject
    IN Len(SelectSeq(tr, Sel))

NotifyCount(tr) == CallCount(tr, "notify_all")

Draws(tr) == \E i \in 1 .. Len(tr) : tr[i].call \in DrawCalls

\* One update_ui pass is either one complete drawing pass or one stop
\* notification; this counts the passes in tr.
UpdatePasses(tr) ==
    CallCount(tr, "glViewport") + NoteCount(tr, "service_process.should_stop")

\* tr is exactly one update_ui pass of a window whose flag was `closing`
OneUpdatePass(tr, closing) ==
    IF closing
    THEN /\ Len(tr) = 1
         /\ NoteCount(tr, "service_process.should_stop") = 1
         /\ DOMAIN tr[1].n = {"subject"}
    ELSE /\ NotifyCount(tr) = 0
         /\ CallCount(tr, "glViewport") = 1
         /\ CallCount(tr, "glfwPollEvents") = 1
         /\ CallCount(tr, "gl_display") = 1
         /\ CallCount(tr, "gui.update") = 1
         /\ CallCount(tr, "glfwSwapBuffers") = 1
         /\ tr[Len(tr)].call = "glfwSwapBuffers"

\* The handlers whose code reaches update_ui
RanUpdateUi(op) ==
    \/ op.op = "on_resize"
    \/ op.op = "on_notify" /\ op.n.subject = Heartbeat
    \/ op.op = "set_scale" /\ op.changed

\* Window size `new` is `old` up to the two integer conversions of a round
\* trip at content scale c / 4: one in unscaled units, one in pixels.
SizeWithinRounding(new, old, c) ==
    \A i \in {1, 2} : new[i] <= old[i] /\ (old[i] - new[i]) * 4 < c + 4

IndexOfCall(tr, name) == CHOOSE i \in 1 .. Len(tr) : tr[i].call = name

IndexOfNote(tr, subject) ==
    CHOOSE i \in 1 .. Len(tr) :
        tr[i].call = "notify_all" /\ tr[i].n.subject = subject

----------------------------------------------------------------------------
(* C1: once the window's should-close flag is up, no operation of the     *)
(* running plugin lowers it again, and every handler that reaches          *)
(* update_ui emits exactly one service_process.should_stop notification    *)
(* and makes none of the viewport, poll, draw, clipboard or swap calls.    *)
C1_ClosePendingStops ==
    [][(phase = "running" /\ should_close) =>
          /\ should_close'
          /\ RanUpdateUi(lastOp') =>
                /\ NoteCount(trace', "service_process.should_stop") = 1
                /\ ~Draws(trace')]_vars

C1_Witness ==
    /\ phase = "running" /\ should_close
    /\ lastOp.op = "on_resize" /\ lastOp.closing
    /\ NoteCount(trace, "service_process.should_stop") = 1
    /\ \E i \in 1 .. Len(sent) : sent[i].subject = Heartbeat
    /\ Len(sent) >= 3

(* C2: every reset_restart emits clear_settings_process.should_start and   *)
(* then service_process.should_start with delay 2.0, each exactly once and *)
(* nothing else, and makes exactly one glfwSetWindowShouldClose call.      *)
C2_RestartEmitsClearThenStart ==
    lastOp.op = "reset_restart" =>
        /\ NotifyCount(trace) = 2
        /\ NoteCount(trace, "clear_settings_process.should_start") = 1
        /\ NoteCount(trace, "service_process.should_start") = 1
        /\ IndexOfNote(trace, "clear_settings_process.should_start")
             < IndexOfNote(trace, "service_process.should_start")
        /\ trace[IndexOfNote(trace, "service_process.should_start")].n
             = [subject |-> "service_process.should_start", delay |-> 20]
        /\ trace[IndexOfNote(trace, "clear_settings_process.should_start")].n
             = [subject |-> "clear_settings_process.should_start"]
        /\ CallCount(trace, "glfwSetWindowShouldClose") = 1
        /\ should_close
        /\ Len(sent) >= 2
        /\ SubSeq(sent, Len(sent) - 1, Len(sent))
             = <<[subject |-> "clear_settings_process.should_start"],
                 [subject |-> "service_process.should_start", delay |-> 20]>>

C2_Witness ==
    /\ lastOp.op = "reset_restart"
    /\ ~lastOp.closing
    /\ NotifyCount(trace) = 2
    /\ Len(sent) = 3

(* C3, as claimed: on reset_restart the window is marked as closing only   *)
(* after both notifications have been emitted.                             *)
C3_CloseAfterNotifications ==
    lastOp.op = "reset_restart" =>
        /\ IndexOfNote(trace, "clear_settings_process.should_start")
             < IndexOfNote(trace, "service_process.should_start")
        /\ IndexOfNote(trace, "service_process.should_start")
             < IndexOfCall(trace, "glfwSetWindowShouldClose")

(* C3, amended: on reset_restart the window is marked as closing first,    *)
(* then the clear-settings request is emitted, then the delayed (2.0)      *)
(* service start request.                                                  *)
C3_CloseBeforeNotifications ==
    lastOp.op = "reset_restart" =>
        /\ IndexOfCall(trace, "glfwSetWindowShouldClose")
             < IndexOfNote(trace, "clear_settings_process.should_start")
        /\ IndexOfNote(trace, "clear_settings_process.should_start")
             < IndexOfNote(trace, "service_process.should_start")

C3_Witness ==
    /\ lastOp.op = "reset_restart"
    /\ trace[1].call = "glfwSetWindowShouldClose"
    /\ trace[Len(trace)].call = "notify_all"

(* C4: on_notify of a service_process.ui.should_update notification, with  *)
(* the window closing or not, first re-emits that notification once with   *)
(* delay equal to its initial_delay and then makes exactly one update_ui   *)
(* pass; on_notify of any other notification emits nothing and makes no    *)
(* pass.                                                                   *)
C4_HeartbeatRearmedThenOnePass ==
    lastOp.op = "on_notify" =>
        IF lastOp.n.subject = Heartbeat
        THEN /\ Len(trace) >= 2
             /\ trace[1].call = "notify_all"
             /\ DOMAIN trace[1].n = DOMAIN lastOp.n \cup {"delay"}
             /\ trace[1].n.subject = Heartbeat
             /\ trace[1].n.initial_delay = lastOp.n.initial_delay
             /\ trace[1].n.delay = lastOp.n.initial_delay
             /\ NoteCount(trace, Heartbeat) = 1
             /\ UpdatePasses(trace) = 1
             /\ OneUpdatePass(Tail(trace), lastOp.closing)
        ELSE trace = <<>>

C4_Witness ==
    /\ lastOp.op = "on_notify"
    /\ lastOp.n.subject = Heartbeat
    /\ "delay" \in DOMAIN lastOp.n
    /\ lastOp.n.delay # lastOp.n.initial_delay
    /\ lastOp.closing
    /\ Len(trace) = 2

(* C6: each toggle emits exactly one notification, eye_process.should_     *)
(* start.N with eye_id N and no delay when switched on,                    *)
(* eye_process.should_stop.N with eye_id N and delay 0.2 when switched     *)
(* off; the eye notifications on the bus are those of the toggles, one per *)
(* toggle and in the order of the toggles.                                 *)
C6_EyeNotificationsFollowToggles ==
    LET IsEye(n) == "eye_id" \in DOMAIN n
        eye == SelectSeq(sent, IsEye)
        StartSubject == <<"eye_process.should_start.0",
                          "eye_process.should_start.1">>
        StopSubject == <<"eye_process.should_stop.0",
                         "eye_process.should_stop.1">>
    IN /\ Len(eye) = Len(toggles)
       /\ \A i \in 1 .. Len(toggles) :
            IF toggles[i][2]
            THEN eye[i] = [subject |-> StartSubject[toggles[i][1] + 1],
                           eye_id |-> toggles[i][1]]
            ELSE eye[i] = [subject |-> StopSubject[toggles[i][1] + 1],
                           eye_id |-> toggles[i][1], delay |-> 2]
       /\ lastOp.op = "start_stop_eye" =>
            /\ Len(trace) = 1
            /\ trace[1].call = "notify_all"
            /\ trace[1].n = sent[Len(sent)]
            /\ trace[1].n.eye_id = lastOp.eye_id

C6_Witness ==
    /\ toggles = <<<<0, TRUE>>, <<0, FALSE>>>>
    /\ Len(sent) = 3
    /\ sent[2].subject = "eye_process.should_start.0"
    /\ sent[3].subject = "eye_process.should_stop.0"
    /\ sent[3].delay = 2

(* C5: set_scale with the user scale already in effect changes nothing   *)
(* (user scale, window size, content scale, widget scale) and makes no     *)
(* call; set_scale with another value stores it and does exactly what      *)
(* on_resize does for the current window size.                             *)
C5_SetScaleNoOpOrResize ==
    [][lastOp'.op = "set_scale" =>
        IF lastOp'.new_scale = gui_user_scale
        THEN /\ trace' = <<>>
             /\ UNCHANGED <<gui_user_scale, window_size, win_size,
                            content_scale, gui_scale, gui_window, sent,
                            should_close>>
        ELSE /\ gui_user_scale' = lastOp'.new_scale
             /\ window_size' = window_size
             /\ win_size' = win_size
             /\ content_scale' = monitor.c
             /\ gui_scale' = lastOp'.new_scale * monitor.c
             /\ gui_window' = window_size
             /\ \E clip \in Clipboards :
                    trace' = on_resize(should_close, window_size[1],
                                       window_size[2], clip[1], clip[2])
             /\ UpdatePasses(trace') = 1]_vars

C5_Witness ==
    /\ lastOp.op = "set_scale"
    /\ ~lastOp.changed
    /\ lastOp.new_scale = gui_user_scale
    /\ gui_user_scale # 10
    /\ content_scale # monitor.c
    /\ trace = <<>>

C9_WidgetScaleIsUserTimesContent ==
    /\ phase # "cleaned" => gui_scale = gui_user_scale * content_scale
    /\ lastOp.op = "on_resize" =>
        /\ window_size = <<lastOp.w, lastOp.h>>
        /\ gui_window = <<lastOp.w, lastOp.h>>
        /\ content_scale = monitor.c
        /\ trace[1] = [call |-> "gui.update_window",
                       size |-> <<lastOp.w, lastOp.h>>]
        /\ trace[2].call = "gui.collect_menus"
        /\ UpdatePasses(trace) = 1
        /\ OneUpdatePass(SubSeq(trace, 3, Len(trace)), lastOp.closing)

C9_Witness ==
    /\ lastOp.op = "on_resize"
    /\ lastOp.w = 2 /\ lastOp.h = 1
    /\ gui_user_scale = 14
    /\ content_scale = 5
    /\ gui_scale = 70

(* C10: a dictionary returned by get_init_dict either has no window_size   *)
(* or has one whose width and height are both non-zero.                    *)
C10_PersistedSizeNonZero ==
    "window_size" \in DOMAIN sess =>
        sess.window_size[1] # 0 /\ sess.window_size[2] # 0

====
